---- MODULE Spec2Model ----
(***************************************************************************)
(* json-to-multicsv: the path-spec parser (parser.py) and the tree walker  *)
(* (converter.py) as a state machine.                                      *)
(*                                                                         *)
(* Text is modelled as a sequence of one-character strings, so that the    *)
(* lexer, the dotted field names and str.isdigit work on characters.       *)
(* Python's None is the empty tuple None, a present value x is Some(x).    *)
(***************************************************************************)
EXTENDS Integers, Sequences, FiniteSets, TLC

VARIABLES
    spec,        \* parser run: the text handed to parse_path_spec
    parsed,      \* parser run: its outcome (None before the first call)
    path_specs,  \* the --path texts the handler list was built from
    handlers,    \* Converter.handlers
    table_name,  \* the table_name argument of Converter.__init__
    rawdoc,      \* the JSON document as written (object keys in source order)
    phase,       \* "new" | "walking" | "returned" | "raised"
    stack,       \* the call stack of _walk frames, innermost last
    tables,      \* Converter.tables: insertion-ordered <<[parts, rows]>>
    err,         \* the exception that left convert (None while there is none)
    log,         \* history: what the walk has visited, created and stored
    no_prefix,   \* cli.main: the --no-prefix flag
    cli,         \* cli.main: where the command is ("idle" outside a CLI run)
    outcome,     \* cli.main: how the command ended (None while it runs)
    store,       \* cli.main: its local `tables`, what json_to_multicsv returned
    files,       \* cli.main: the files opened for writing, in order
    calls        \* how many times convert was called on the Converter

vars == <<spec, parsed, path_specs, handlers, table_name, rawdoc, phase,
          stack, tables, err, log, no_prefix, cli, outcome, store, files,
          calls>>

parserVars == <<spec, parsed>>
walkerVars == <<path_specs, handlers, table_name, rawdoc, phase, stack,
                tables, err, log>>
cliVars == <<no_prefix, cli, outcome, store, files>>

---------------------------------------------------------------------------
(* Bounds of the model *)

\* chunks of text a parser input is assembled from
MaxChunks == 5
\* --path options given to one run
MaxSpecs == 2
\* nodes (containers and scalars) of an input document
MaxNodes == 3
\* conversions made one after the other
MaxCalls == 2

---------------------------------------------------------------------------
(* Values and text *)

None == <<>>
Some(x) == <<x>>

\* what peek returns at the end of the text (Python None): no character
EOS == "<end of string>"

S_table == <<"t", "a", "b", "l", "e">>
S_column == <<"c", "o", "l", "u", "m", "n">>
S_row == <<"r", "o", "w">>
S_ignore == <<"i", "g", "n", "o", "r", "e">>
S_key == <<".", "_", "k", "e", "y">>

\* a faulty _VALID_KINDS: a kind too many
VALID_KINDS_extra == {S_table, S_column, S_row, S_ignore, <<"a">>}

VALID_KINDS == {S_table, S_column, S_row, S_ignore}

\* the characters of the model in code-point order (Python compares str by
\* code point)
CharOrder == <<"*", ".", "/", "0", "1", "2", "3", "4", "5", "6", "7", "8",
               "9", ":", "T", "_", "a", "b", "c", "e", "g", "i", "k", "l",
               "m", "n", "o", "r", "t", "u", "v", "w", "y">>

Ord(c) == CHOOSE i \in 1..Len(CharOrder) : CharOrder[i] = c

Digits == {"0", "1", "2", "3", "4", "5", "6", "7", "8", "9"}

\* str < str
RECURSIVE StrLess(_, _)
StrLess(s, t) ==
    IF t = <<>> THEN FALSE
    ELSE IF s = <<>> THEN TRUE
    ELSE IF s[1] = t[1] THEN StrLess(Tail(s), Tail(t))
    ELSE Ord(s[1]) < Ord(t[1])

\* sep.join(parts)
RECURSIVE Join(_, _)
Join(sep, parts) ==
    IF parts = <<>> THEN <<>>
    ELSE IF Len(parts) = 1 THEN parts[1]
    ELSE parts[1] \o sep \o Join(sep, Tail(parts))

\* str.isdigit: non-empty and every character a digit
isdigit(s) == s # <<>> /\ \A i \in 1..Len(s) : s[i] \in Digits

\* str(i) for an array index
str(i) == <<CharOrder[4 + i]>>

---------------------------------------------------------------------------
(* parser.py: Handler, _Lexer, parse_path_spec, build_handlers *)

Handler(kind, components, name, key_name, fallback) ==
    [kind |-> kind, components |-> components, name |-> name,
     key_name |-> key_name, fallback |-> fallback]

matches(h, path) ==
    IF Len(path) # Len(h.components) THEN FALSE
    ELSE \A i \in 1..Len(path) :
            h.components[i] = <<"*">> \/ h.components[i] = path[i]

peek(s, pos) == IF pos >= Len(s) THEN EOS ELSE s[pos + 1]

\* a faulty at_end: off by one, true with one character left
at_end_early(s, pos) == pos >= Len(s) - 1

at_end(s, pos) == pos >= Len(s)

\* _Lexer.error: the PathSpecError, with the caret at the current position
LexError(pos, message) ==
    [status |-> "PathSpecError", handler |-> None, pos |-> pos,
     message |-> message]

\* expect_char: the position after ch, or -1 when the next character is not ch
expect_char(s, pos, ch) == IF peek(s, pos) # ch THEN -1 ELSE pos + 1

RECURSIVE scan_text(_, _)
scan_text(s, pos) ==
    IF pos < Len(s) /\ s[pos + 1] \notin {"/", ":"}
    THEN scan_text(s, pos + 1)
    ELSE pos

\* read_text: the run of characters up to the next "/" or ":"; fails if empty
read_text(s, start) ==
    LET pos == scan_text(s, start) IN
    IF pos = start
    THEN [ok |-> FALSE, pos |-> pos, text |-> <<>>]
    ELSE [ok |-> TRUE, pos |-> pos, text |-> SubSeq(s, start + 1, pos)]

\* the segment loop of parse_path_spec
RECURSIVE read_segments(_, _, _)
read_segments(s, pos, components) ==
    IF peek(s, pos) \in {":", EOS}
    THEN [ok |-> TRUE, pos |-> pos, components |-> components]
    ELSE LET t == read_text(s, pos) IN
         IF ~t.ok
         THEN [ok |-> FALSE, pos |-> t.pos, components |-> components]
         ELSE IF peek(s, t.pos) = "/"
         THEN LET p == expect_char(s, t.pos, "/") IN
              IF peek(s, p) \in {":", EOS}
              THEN [ok |-> FALSE, pos |-> p,
                    components |-> Append(components, t.text)]
              ELSE read_segments(s, p, Append(components, t.text))
         ELSE read_segments(s, t.pos, Append(components, t.text))

\* the kind-specific tail of parse_path_spec, from the ':' after the kind
parse_args(s, pos, kind, components) ==
    IF kind = S_table
    THEN LET p1 == expect_char(s, pos, ":") IN
         IF p1 < 0 THEN LexError(pos, "Expected ':'")
         ELSE LET n == read_text(s, p1) IN
         IF ~n.ok THEN LexError(n.pos, "Expected text")
         ELSE IF peek(s, n.pos) = ":"
         THEN LET k == read_text(s, expect_char(s, n.pos, ":")) IN
              IF ~k.ok THEN LexError(k.pos, "Expected text")
              ELSE IF ~at_end(s, k.pos)
              THEN LexError(k.pos, "Unexpected content")
              ELSE [status |-> "ok",
                    handler |-> Some(Handler(kind, components, Some(n.text),
                                             Some(k.text), FALSE)),
                    pos |-> k.pos, message |-> ""]
         ELSE IF ~at_end(s, n.pos)
         THEN LexError(n.pos, "Unexpected content")
         ELSE [status |-> "ok",
               handler |-> Some(Handler(kind, components, Some(n.text),
                                        None, FALSE)),
               pos |-> n.pos, message |-> ""]
    ELSE IF ~at_end(s, pos)
    THEN LexError(pos, "handler does not take extra arguments")
    ELSE [status |-> "ok",
          handler |-> Some(Handler(kind, components, None, None, FALSE)),
          pos |-> pos, message |-> ""]

\* lex._pos -= len(kind): back up to the start of the bad kind
kind_error_pos(pos, kind) == pos - Len(kind)

parse_path_spec(s) ==
    LET p0 == expect_char(s, 0, "/") IN
    IF p0 < 0 THEN LexError(0, "Expected '/'")
    ELSE LET segs == read_segments(s, p0, <<>>) IN
    IF ~segs.ok THEN LexError(segs.pos, "Expected text")
    ELSE LET p1 == expect_char(s, segs.pos, ":") IN
    IF p1 < 0 THEN LexError(segs.pos, "Expected ':'")
    ELSE LET k == read_text(s, p1) IN
    IF ~k.ok THEN LexError(k.pos, "Expected text")
    ELSE IF k.text \notin VALID_KINDS
    THEN LexError(kind_error_pos(k.pos, k.text), "Unknown handler kind")
    ELSE parse_args(s, k.pos, k.text, segs.components)

\* build_handlers: each parsed handler followed by its fallback column
\* handler; None when a spec raises PathSpecError
RECURSIVE build_handlers(_)
build_handlers(specs) ==
    IF specs = <<>> THEN Some(<<>>)
    ELSE LET r == parse_path_spec(specs[1]) IN
         IF r.status # "ok" THEN None
         ELSE LET rest == build_handlers(Tail(specs))
                  h == r.handler[1] IN
              IF rest = None THEN None
              ELSE Some(<<h, Handler(S_column,
                                     Append(h.components, <<"*">>),
                                     None, None, TRUE)>> \o rest[1])

---------------------------------------------------------------------------
(* Documents: a scalar, an object (key/value pairs) or an array *)

Scalar(v) == [t |-> "s", v |-> v, ch |-> <<>>]
Object(pairs) == [t |-> "o", v |-> <<>>, ch |-> pairs]
Array(items) == [t |-> "a", v |-> <<>>, ch |-> items]

\* isinstance(val, dict | list)
IsContainer(val) == val.t # "s"

\* insertion of one (key, value) pair into a list of pairs sorted by key
RECURSIVE InsertSorted(_, _)
InsertSorted(pairs, kv) ==
    IF pairs = <<>> THEN <<kv>>
    ELSE IF StrLess(kv[1], pairs[1][1]) THEN <<kv>> \o pairs
    ELSE <<pairs[1]>> \o InsertSorted(Tail(pairs), kv)

\* sorted(items), for items with distinct keys
RECURSIVE sorted(_)
sorted(items) ==
    IF items = <<>> THEN <<>>
    ELSE InsertSorted(sorted(SubSeq(items, 1, Len(items) - 1)),
                      items[Len(items)])

\* a faulty _sorted_dict: the pairs in source order
unsorted_dict(items) == items

\* _sorted_dict: the object_pairs_hook of json.load
_sorted_dict(items) == sorted(items)

\* json.load(fileobj, object_pairs_hook=_sorted_dict): the hook is applied to
\* the pairs of every object, innermost first
RECURSIVE Decode(_)
Decode(raw) ==
    IF raw.t = "s" THEN raw
    ELSE IF raw.t = "a"
    THEN Array([i \in 1..Len(raw.ch) |-> Decode(raw.ch[i])])
    ELSE Object(_sorted_dict([i \in 1..Len(raw.ch) |->
                                <<raw.ch[i][1], Decode(raw.ch[i][2])>>]))

---------------------------------------------------------------------------
(* Python dict (insertion-ordered) as a sequence of <<key, value>> pairs *)

HasKey(d, k) == \E i \in 1..Len(d) : d[i][1] = k

GetKey(d, k) == d[CHOOSE i \in 1..Len(d) : d[i][1] = k][2]

\* d[k] = v: a present key keeps its place and takes the new value
SetKey(d, k, v) ==
    IF HasKey(d, k)
    THEN [i \in 1..Len(d) |-> IF d[i][1] = k THEN <<k, v>> ELSE d[i]]
    ELSE Append(d, <<k, v>>)

\* dict(pairs)
RECURSIVE dict(_)
dict(pairs) ==
    IF pairs = <<>> THEN <<>>
    ELSE SetKey(dict(SubSeq(pairs, 1, Len(pairs) - 1)),
                pairs[Len(pairs)][1], pairs[Len(pairs)][2])

\* the key a row gets for field: the text, or None itself when field is None
NoneField == <<"None">>
FieldKey(field) == IF field = None THEN NoneField ELSE field[1]

(* Converter.tables, a defaultdict(list): <<[parts, rows]>> in insertion order *)

TableIndex(tbls, parts) ==
    IF \E i \in 1..Len(tbls) : tbls[i].parts = parts
    THEN CHOOSE i \in 1..Len(tbls) : tbls[i].parts = parts
    ELSE 0

\* a store that puts a row in front of the rows its table already has
TablesPush(tbls, parts, row) ==
    LET ti == TableIndex(tbls, parts) IN
    IF ti = 0 THEN Append(tbls, [parts |-> parts, rows |-> <<row>>])
    ELSE [tbls EXCEPT ![ti].rows = <<row>> \o @]

\* self.tables[parts].append(row)
TablesAppend(tbls, parts, row) ==
    LET ti == TableIndex(tbls, parts) IN
    IF ti = 0 THEN Append(tbls, [parts |-> parts, rows |-> <<row>>])
    ELSE [tbls EXCEPT ![ti].rows = Append(@, row)]

\* the reference <<table, row>> of the row last appended to table parts
LastRowRef(tbls, parts) ==
    LET ti == TableIndex(tbls, parts) IN <<ti, Len(tbls[ti].rows)>>

RowAt(tbls, ref) == tbls[ref[1]].rows[ref[2]]

---------------------------------------------------------------------------
(* converter.py: Converter *)

Min(a, b) == IF a < b THEN a ELSE b

\* the loop of _find_handler from handler i on, with the fallback remembered
RECURSIVE find_handler_from(_, _, _, _)
find_handler_from(hs, i, path, fallback) ==
    IF i > Len(hs) THEN fallback
    ELSE IF matches(hs[i], path)
    THEN IF hs[i].fallback
         THEN find_handler_from(hs, i + 1, path, Some(hs[i]))
         ELSE Some(hs[i])
    ELSE find_handler_from(hs, i + 1, path, fallback)

\* a faulty _find_handler: the first handler that matches, fallback or not
RECURSIVE first_match_from(_, _, _)
first_match_from(hs, i, path) ==
    IF i > Len(hs) THEN None
    ELSE IF matches(hs[i], path) THEN Some(hs[i])
    ELSE first_match_from(hs, i + 1, path)

find_first_match(hs, path) == first_match_from(hs, 1, path)

_find_handler(hs, path) == find_handler_from(hs, 1, path, None)

\* a faulty loop of _path_to_pathspec: "*" whatever the segment is
pathspec_star_any(h, path, segs) ==
    LET n == Len(h.components) IN
    /\ h.kind = S_table
    /\ ~h.fallback
    /\ n < Len(path)
    /\ matches(h, SubSeq(path, 1, n))

\* whether the loop of _path_to_pathspec puts "*" at position n (0-based) for
\* handler h
pathspec_star(h, path, segs) ==
    LET n == Len(h.components) IN
    /\ h.kind = S_table
    /\ ~h.fallback
    /\ n < Len(path)
    /\ matches(h, SubSeq(path, 1, n))
    /\ isdigit(segs[n + 1])

RECURSIVE pathspec_from(_, _, _, _)
pathspec_from(hs, i, path, segs) ==
    IF i > Len(hs) THEN segs
    ELSE IF pathspec_star(hs[i], path, segs)
    THEN pathspec_from(hs, i + 1, path,
                       [segs EXCEPT ![Len(hs[i].components) + 1] = <<"*">>])
    ELSE pathspec_from(hs, i + 1, path, segs)

_path_to_pathspec(hs, path) ==
    <<"/">> \o Join(<<"/">>, pathspec_from(hs, 1, path, path))

\* the exceptions that leave _walk; at is the concrete path of the node and
\* row the row argument of the frame (history: the messages carry only the
\* rendered texts)
_no_handler_error(hs, path, val_type) ==
    [kind |-> "ConvertError", cause |-> "no handler", val_type |-> val_type,
     field |-> None, table |-> <<>>, path |-> _path_to_pathspec(hs, path),
     at |-> path, row |-> None]

CollisionError(field, table_parts, path, row) ==
    [kind |-> "ConvertError", cause |-> "collision", val_type |-> "scalar",
     field |-> field, table |-> Join(<<".">>, table_parts),
     path |-> <<"/">> \o Join(<<"/">>, path), at |-> path, row |-> row]

\* "field in row" with row None: argument of type 'NoneType' is not iterable
NoRowError(field, path) ==
    [kind |-> "TypeError", cause |-> "row is None", val_type |-> "scalar",
     field |-> field, table |-> <<>>, path |-> <<>>, at |-> path,
     row |-> None]

\* self._initial_table_parts
initial_table_parts(tn) ==
    IF tn # None /\ tn[1] # <<>> THEN <<tn[1]>> ELSE <<>>

\* a faulty col_name: the whole of child_parts joined
key_col_name_full(h, child_parts, ancestor_keys) ==
    IF h.key_name # None /\ h.key_name[1] # <<>>
    THEN h.key_name[1]
    ELSE Join(<<".">>, child_parts) \o S_key

\* col_name of the table case
key_col_name(h, child_parts, ancestor_keys) ==
    IF h.key_name # None /\ h.key_name[1] # <<>>
    THEN h.key_name[1]
    ELSE Join(<<".">>, SubSeq(child_parts, 1,
                              Min(Len(ancestor_keys) + 1, Len(child_parts))))
         \o S_key

\* the (key, value) pairs of a container: dict.items(), or the elements with
\* their stringified indices
Children(val) ==
    IF val.t = "o" THEN val.ch
    ELSE [i \in 1..Len(val.ch) |-> <<str(i - 1), val.ch[i]>>]

\* a faulty field of a column child: the prefix dropped
column_field_short(field, child_key) == Some(child_key)

\* the field a column handler hands to a child
column_field(field, child_key) ==
    IF field # None THEN Some(field[1] \o <<".">> \o child_key)
    ELSE Some(child_key)

(* One frame of _walk: its arguments, and once the loop over the children  *)
(* has started (pc is the handler kind) the handler, the children, the     *)
(* index i of the next child, col_name and new_row.                        *)
Frame(val, path, ancestor_keys, table_parts, field, row) ==
    [pc |-> "call", val |-> val, path |-> path,
     ancestor_keys |-> ancestor_keys, table_parts |-> table_parts,
     field |-> field, row |-> row, handler |-> None, children |-> <<>>,
     i |-> 0, col_name |-> <<>>, new_row |-> None]

\* an entry of the history: the node at path was visited ("visit"), got a
\* row of its own ("row", with the ancestor keys the row was built from) or
\* had its value stored in a row ("store", overwrote telling whether the row
\* already had the field)
Event(op, by, path, ref, keys, field, overwrote) ==
    [op |-> op, by |-> by, path |-> path, ref |-> ref, keys |-> keys,
     field |-> field, overwrote |-> overwrote]

Top(m) == m.stack[Len(m.stack)]

\* return from the innermost _walk; convert returns when the root returns
Return(m) ==
    LET s == SubSeq(m.stack, 1, Len(m.stack) - 1) IN
    [m EXCEPT !.stack = s,
              !.phase = IF s = <<>> THEN "returned" ELSE "walking"]

\* an exception unwinds every frame and leaves convert
Raise(m, e) == [m EXCEPT !.stack = <<>>, !.phase = "raised", !.err = Some(e)]

ReplaceTop(m, f) == [m EXCEPT !.stack[Len(m.stack)] = f]

Visited(m, f) ==
    [m EXCEPT !.log = @ \cup {Event("visit", "walk", f.path, None, <<>>, None, FALSE)}]

---------------------------------------------------------------------------
(* Converter._walk, one step at a time.  m is the state of the conversion: *)
(* [phase, stack, tables, err, log]; hs is self.handlers.                  *)

\* handler.kind == "ignore": return
walk_ignore(m) == Return(Visited(m, Top(m)))

\* a scalar with row None: "field in row" raises TypeError
walk_scalar_no_row(m) ==
    Raise(Visited(m, Top(m)), NoRowError(Top(m).field, Top(m).path))

\* a scalar whose field is already in row: ConvertError
walk_scalar_collision(m) ==
    LET f == Top(m) IN
    Raise(Visited(m, f),
          CollisionError(Some(FieldKey(f.field)), f.table_parts, f.path,
                         f.row))

\* row[field] = val; return
walk_scalar_store(m) ==
    LET f == Top(m)
        ref == f.row[1]
        m1 == Visited(m, f)
    IN Return([m1 EXCEPT
         !.tables[ref[1]].rows[ref[2]] = SetKey(@, FieldKey(f.field), f.val.v),
         !.log = @ \cup {Event("store", "walk", f.path, f.row, <<>>,
                               Some(FieldKey(f.field)),
                               HasKey(RowAt(m.tables, ref),
                                      FieldKey(f.field)))}])

\* a container without handler: ConvertError
walk_no_handler(hs, m) ==
    LET f == Top(m) IN
    Raise(Visited(m, f),
          _no_handler_error(hs, f.path,
                            IF f.val.t = "o" THEN "object" ELSE "array"))

\* case "table": tbl_name, child_parts and col_name, then the loop
walk_table(m, h) ==
    LET f == Top(m)
        child_parts == Append(f.table_parts, h.name[1])
    IN ReplaceTop(Visited(m, f),
         [f EXCEPT !.pc = "table", !.handler = Some(h),
                   !.children = Children(f.val), !.i = 1,
                   !.col_name = key_col_name(h, child_parts,
                                             f.ancestor_keys)])

\* one iteration of the table loop: the child's row is appended; a scalar
\* child is stored under tbl_name, a container child is walked
table_child(m) ==
    LET f == Top(m)
        h == f.handler[1]
        tbl_name == h.name[1]
        child_parts == Append(f.table_parts, tbl_name)
        child_key == f.children[f.i][1]
        child == f.children[f.i][2]
        child_ancestor_keys ==
            Append(f.ancestor_keys, <<f.col_name, child_key>>)
        child_row == dict(child_ancestor_keys)
        tbls == TablesAppend(m.tables, child_parts, child_row)
        ref == LastRowRef(tbls, child_parts)
        child_path == Append(f.path, child_key)
        made == Event("row", "table", child_path, Some(ref),
                      child_ancestor_keys, None, FALSE)
        next == [f EXCEPT !.i = @ + 1]
    IN IF ~IsContainer(child)
       THEN [m EXCEPT
              !.stack[Len(m.stack)] = next,
              !.tables = [tbls EXCEPT ![ref[1]].rows[ref[2]] =
                                          SetKey(@, tbl_name, child.v)],
              !.log = @ \cup {made,
                              Event("store", "table", child_path, Some(ref),
                                    <<>>, Some(tbl_name),
                                    HasKey(child_row, tbl_name))}]
       ELSE [m EXCEPT
              !.stack = Append(SubSeq(m.stack, 1, Len(m.stack) - 1), next)
                        \o <<Frame(child, child_path, child_ancestor_keys,
                                   child_parts, None, Some(ref))>>,
              !.tables = tbls,
              !.log = @ \cup {made}]

\* case "column" on an array matched only by a fallback handler: ConvertError
walk_fallback_array(hs, m) ==
    Raise(Visited(m, Top(m)), _no_handler_error(hs, Top(m).path, "array"))

\* case "column": the loop starts
walk_column(m, h) ==
    LET f == Top(m) IN
    ReplaceTop(Visited(m, f),
         [f EXCEPT !.pc = "column", !.handler = Some(h),
                   !.children = Children(f.val), !.i = 1])

\* one iteration of the column loop
column_child(m) ==
    LET f == Top(m)
        child_key == f.children[f.i][1]
        child == f.children[f.i][2]
    IN [m EXCEPT !.stack =
          Append(SubSeq(m.stack, 1, Len(m.stack) - 1), [f EXCEPT !.i = @ + 1])
          \o <<Frame(child, Append(f.path, child_key), f.ancestor_keys,
                     f.table_parts, column_field(f.field, child_key),
                     f.row)>>]

\* case "row": new_row is appended to the current table, then the loop
walk_row(m, h) ==
    LET f == Top(m)
        new_row == dict(f.ancestor_keys)
        tbls == TablesAppend(m.tables, f.table_parts, new_row)
        ref == LastRowRef(tbls, f.table_parts)
        m1 == Visited(m, f)
    IN [m1 EXCEPT
         !.stack[Len(m.stack)] =
             [f EXCEPT !.pc = "row", !.handler = Some(h),
                       !.children = Children(f.val), !.i = 1,
                       !.new_row = Some(ref)],
         !.tables = tbls,
         !.log = @ \cup {Event("row", "row", f.path, Some(ref),
                               f.ancestor_keys, None, FALSE)}]

\* one iteration of the row loop
row_child(m) ==
    LET f == Top(m)
        child_key == f.children[f.i][1]
        child == f.children[f.i][2]
    IN [m EXCEPT !.stack =
          Append(SubSeq(m.stack, 1, Len(m.stack) - 1), [f EXCEPT !.i = @ + 1])
          \o <<Frame(child, Append(f.path, child_key), f.ancestor_keys,
                     f.table_parts, Some(child_key), f.new_row)>>]

\* a faulty test of case "column": every array rejected
rejects_any_array(h, val) == val.t = "a"

\* handler.fallback and isinstance(val, list), in case "column"
fallback_rejects(h, val) == h.fallback /\ val.t = "a"

\* which statement of _walk the innermost frame executes next
WalkBranch(hs, m) ==
    LET f == Top(m)
        handler == _find_handler(hs, f.path)
    IN IF f.pc = "call"
       THEN IF handler # None /\ handler[1].kind = S_ignore THEN "ignore"
            ELSE IF ~IsContainer(f.val)
            THEN IF f.row = None THEN "scalar_no_row"
                 ELSE IF HasKey(RowAt(m.tables, f.row[1]), FieldKey(f.field))
                 THEN "scalar_collision"
                 ELSE "scalar_store"
            ELSE IF handler = None THEN "no_handler"
            ELSE IF handler[1].kind = S_table THEN "table"
            ELSE IF handler[1].kind = S_column
            THEN IF fallback_rejects(handler[1], f.val)
                 THEN "fallback_array"
                 ELSE "column"
            ELSE "row"
       ELSE IF f.i > Len(f.children) THEN "return"
       ELSE IF f.pc = "table" THEN "table_child"
       ELSE IF f.pc = "column" THEN "column_child"
       ELSE "row_child"

\* the state after that statement
WalkStep(hs, m) ==
    LET b == WalkBranch(hs, m)
        h == _find_handler(hs, Top(m).path)[1]
    IN CASE b = "ignore" -> walk_ignore(m)
         [] b = "scalar_no_row" -> walk_scalar_no_row(m)
         [] b = "scalar_collision" -> walk_scalar_collision(m)
         [] b = "scalar_store" -> walk_scalar_store(m)
         [] b = "no_handler" -> walk_no_handler(hs, m)
         [] b = "table" -> walk_table(m, h)
         [] b = "fallback_array" -> walk_fallback_array(hs, m)
         [] b = "column" -> walk_column(m, h)
         [] b = "row" -> walk_row(m, h)
         [] b = "table_child" -> table_child(m)
         [] b = "column_child" -> column_child(m)
         [] b = "row_child" -> row_child(m)
         [] b = "return" -> Return(m)

\* Converter.__init__: no table yet
NewConverter ==
    [phase |-> "new", stack |-> <<>>, tables |-> <<>>, err |-> None,
     log |-> {}]

\* Converter.convert up to the call of _walk on the decoded document
convert(m, tn, raw) ==
    [m EXCEPT !.phase = "walking",
              !.stack = <<Frame(Decode(raw), <<>>, <<>>,
                                initial_table_parts(tn), None, None)>>]

\* the conversion run to its end (convert returns or raises)
RECURSIVE RunWalk(_, _)
RunWalk(hs, m) ==
    IF m.phase # "walking" THEN m ELSE RunWalk(hs, WalkStep(hs, m))

---------------------------------------------------------------------------
(* The inputs the model draws from *)

SeqsUpTo(S, n) == UNION {[1..k -> S] : k \in 0..n}

\* the texts of the --path options
SpecMenu ==
    { <<"/", ":">> \o S_table \o <<":", "t">>,                \* /:table:t
      <<"/", ":">> \o S_table \o <<":", "t", ":", "k">>,      \* /:table:t:k
      <<"/", "*", ":">> \o S_table \o <<":", "k">>,           \* /*:table:k
      <<"/", "*", ":">> \o S_table \o <<":", "u", ":", "k">>, \* /*:table:u:k
      <<"/", ":">> \o S_row,                                  \* /:row
      <<"/", ":">> \o S_column,                               \* /:column
      <<"/", "a", ":">> \o S_ignore }                         \* /a:ignore

\* the lists of up to MaxSpecs different --path options
SpecLists ==
    {l \in SeqsUpTo(SpecMenu, MaxSpecs) :
        \A i, j \in 1..Len(l) : i # j => l[i] # l[j]}

\* the --table option: absent, or T
TableNames == {None, Some(<<"T">>)}

Keys == {<<"a">>, <<"0">>}
ScalarValues == {<<"v">>}

(* The documents of exactly n nodes, objects with their keys in any order; *)
(* a leaf is a scalar or the empty array                                   *)
RECURSIVE DocsOfSize(_), ItemSeqs(_), PairSeqs(_, _)
DocsOfSize(n) ==
    IF n = 1
    THEN {Scalar(v) : v \in ScalarValues} \cup {Array(<<>>)}
    ELSE {Object(p) : p \in PairSeqs(n - 1, {})}
         \cup {Array(c) : c \in ItemSeqs(n - 1)}

\* the sequences of documents of n nodes in all
ItemSeqs(n) ==
    IF n = 0 THEN {<<>>}
    ELSE UNION {{<<d>> \o rest : d \in DocsOfSize(k), rest \in ItemSeqs(n - k)}
                : k \in 1..n}

\* the sequences of (key, document) pairs of n nodes in all, keys distinct and
\* not in used
PairSeqs(n, used) ==
    IF n = 0 THEN {<<>>}
    ELSE UNION {{<< <<key, d>> >> \o rest :
                    d \in DocsOfSize(k),
                    rest \in PairSeqs(n - k, used \cup {key})}
                : <<key, k>> \in (Keys \ used) \X (1..n)}

\* a key with a dot beside the nested path it collides with:
\* {"a": {"a": "v"}, "a.a": "v"}
DottedDocs ==
    {Object(<< <<<<"a">>, Object(<< <<<<"a">>, Scalar(<<"v">>)>> >>)>>,
               <<<<"a", ".", "a">>, Scalar(<<"v">>)>> >>)}

\* the documents a run is given: up to MaxNodes nodes, the empty object, and
\* the document with a dotted key
RawDocs ==
    UNION {DocsOfSize(n) : n \in 1..MaxNodes} \cup {Object(<<>>)} \cup DottedDocs

\* the chunks a parser input is assembled from
Chunks ==
    {<<"/">>, <<":">>, <<"a">>, <<"*">>, <<":", "a">>,
     <<":">> \o S_table, <<":">> \o S_row}

RECURSIVE Concat(_)
Concat(ss) == IF ss = <<>> THEN <<>> ELSE ss[1] \o Concat(Tail(ss))

ParserInputs == {Concat(ss) : ss \in SeqsUpTo(Chunks, MaxChunks)}

---------------------------------------------------------------------------
(* The state machine *)

M == [phase |-> phase, stack |-> stack, tables |-> tables, err |-> err,
      log |-> log]

Update(m) ==
    /\ phase' = m.phase
    /\ stack' = m.stack
    /\ tables' = m.tables
    /\ err' = m.err
    /\ log' = m.log

\* no command is running
NoCli ==
    /\ no_prefix = FALSE
    /\ cli = "idle"
    /\ outcome = None
    /\ store = None
    /\ files = <<>>

\* a Converter constructed from the handlers build_handlers returns
Init ==
    /\ spec = <<>>
    /\ parsed = None
    /\ path_specs \in SpecLists
    /\ handlers = build_handlers(path_specs)[1]
    /\ table_name \in TableNames
    /\ rawdoc = None
    /\ phase = NewConverter.phase
    /\ stack = NewConverter.stack
    /\ tables = NewConverter.tables
    /\ err = NewConverter.err
    /\ log = NewConverter.log
    /\ NoCli
    /\ calls = 0

\* Converter.convert is called with a document
Convert ==
    /\ phase = "new"
    /\ \E raw \in RawDocs :
          /\ rawdoc' = Some(raw)
          /\ Update(convert(M, table_name, raw))
    /\ calls' = calls + 1
    /\ UNCHANGED <<spec, parsed, path_specs, handlers, table_name>>
    /\ UNCHANGED cliVars

\* the innermost frame of the walk is at statement b
At(b) == phase = "walking" /\ WalkBranch(handlers, M) = b

Fixed ==
    UNCHANGED <<spec, parsed, path_specs, handlers, table_name, rawdoc,
                no_prefix, cli, outcome, store, files, calls>>

WalkIgnore ==
    /\ At("ignore")
    /\ Update(walk_ignore(M))
    /\ Fixed

WalkScalarNoRow ==
    /\ At("scalar_no_row")
    /\ Update(walk_scalar_no_row(M))
    /\ Fixed

WalkScalarCollision ==
    /\ At("scalar_collision")
    /\ Update(walk_scalar_collision(M))
    /\ Fixed

WalkScalarStore ==
    /\ At("scalar_store")
    /\ Update(walk_scalar_store(M))
    /\ Fixed

WalkNoHandler ==
    /\ At("no_handler")
    /\ Update(walk_no_handler(handlers, M))
    /\ Fixed

WalkTable ==
    /\ At("table")
    /\ Update(walk_table(M, _find_handler(handlers, Top(M).path)[1]))
    /\ Fixed

WalkFallbackArray ==
    /\ At("fallback_array")
    /\ Update(walk_fallback_array(handlers, M))
    /\ Fixed

WalkColumn ==
    /\ At("column")
    /\ Update(walk_column(M, _find_handler(handlers, Top(M).path)[1]))
    /\ Fixed

WalkRow ==
    /\ At("row")
    /\ Update(walk_row(M, _find_handler(handlers, Top(M).path)[1]))
    /\ Fixed

TableChild ==
    /\ At("table_child")
    /\ Update(table_child(M))
    /\ Fixed

ColumnChild ==
    /\ At("column_child")
    /\ Update(column_child(M))
    /\ Fixed

RowChild ==
    /\ At("row_child")
    /\ Update(row_child(M))
    /\ Fixed

WalkReturn ==
    /\ At("return")
    /\ Update(Return(M))
    /\ Fixed

Next ==
    \/ Convert
    \/ WalkIgnore
    \/ WalkScalarNoRow
    \/ WalkScalarCollision
    \/ WalkScalarStore
    \/ WalkNoHandler
    \/ WalkTable
    \/ WalkFallbackArray
    \/ WalkColumn
    \/ WalkRow
    \/ TableChild
    \/ ColumnChild
    \/ RowChild
    \/ WalkReturn

Spec == Init /\ [][Next]_vars

(* The parser alone: parse_path_spec applied to a text *)

InitParse ==
    /\ spec \in ParserInputs
    /\ parsed = None
    /\ path_specs = <<>>
    /\ handlers = <<>>
    /\ table_name = None
    /\ rawdoc = None
    /\ phase = "new"
    /\ stack = <<>>
    /\ tables = <<>>
    /\ err = None
    /\ log = {}
    /\ NoCli
    /\ calls = 0

Parse ==
    /\ parsed = None
    /\ parsed' = Some(parse_path_spec(spec))
    /\ UNCHANGED <<spec, path_specs, handlers, table_name, rawdoc, phase,
                   stack, tables, err, log, no_prefix, cli, outcome, store,
                   files, calls>>

NextParse == Parse

SpecParse == InitParse /\ [][NextParse]_vars

---------------------------------------------------------------------------
(* cli.py: the command.  The text of the messages is left out; an error    *)
(* is the exception class and what it is about.                            *)

S_csv == <<".", "c", "s", "v">>

ClickException(cause, name) ==
    [kind |-> "ClickException", cause |-> cause, name |-> name]

\* click.BadParameter raised from the exception of class cause
BadParameter(cause) ==
    [kind |-> "BadParameter", cause |-> cause, name |-> None]

\* an exception main does not catch
Uncaught(kind) == [kind |-> kind, cause |-> "uncaught", name |-> None]

Exit0 == [kind |-> "ok", cause |-> "", name |-> None]

\* any(h.kind == "row" and h.components == [] for h in handlers)
has_root_row(hs) ==
    \E i \in 1..Len(hs) : hs[i].kind = S_row /\ hs[i].components = <<>>

\* the loop of _check_no_prefix_collisions over the handlers, seen the names
\* met so far: the ClickException of the first table name already seen
RECURSIVE check_names_from(_, _, _)
check_names_from(hs, i, seen) ==
    IF i > Len(hs) THEN None
    ELSE IF hs[i].kind # S_table THEN check_names_from(hs, i + 1, seen)
    ELSE IF hs[i].name[1] \in seen
    THEN Some(ClickException("duplicate table name", hs[i].name))
    ELSE check_names_from(hs, i + 1, seen \cup {hs[i].name[1]})

\* _check_no_prefix_collisions: None when it returns, else what it raises
_check_no_prefix_collisions(hs, tn) ==
    IF has_root_row(hs)
    THEN IF tn = None \/ tn[1] = <<>>
         THEN Some(ClickException("requires --table", None))
         ELSE check_names_from(hs, 1, {tn[1]})
    ELSE check_names_from(hs, 1, {})

\* the keys of row that are not in fields, appended to fields
RECURSIVE add_keys(_, _)
add_keys(fields, row) ==
    IF row = <<>> THEN fields
    ELSE add_keys(IF \E i \in 1..Len(fields) : fields[i] = row[1][1]
                  THEN fields ELSE Append(fields, row[1][1]),
                  Tail(row))

\* list(dict.fromkeys(k for row in rows for k in row))
RECURSIVE fieldnames_from(_, _)
fieldnames_from(fields, rows) ==
    IF rows = <<>> THEN fields
    ELSE fieldnames_from(add_keys(fields, rows[1]), Tail(rows))

fieldnames(rows) == fieldnames_from(<<>>, rows)

\* the name of the file of a table; table_parts[-1] of the empty tuple is an
\* IndexError (None)
filename(table_parts, np) ==
    IF np
    THEN IF table_parts = <<>> THEN None
         ELSE Some(table_parts[Len(table_parts)] \o S_csv)
    ELSE Some(Join(<<".">>, table_parts) \o S_csv)

\* csv.DictWriter(f, fieldnames=fields, restval=""): the header and one line
\* per row, an absent field written as the empty text
written_rows(fields, rows) ==
    [r \in 1..Len(rows) |->
        [c \in 1..Len(fields) |->
            IF HasKey(rows[r], fields[c]) THEN GetKey(rows[r], fields[c])
            ELSE <<>>]]

\* the --path texts of a command: tables (two of a name), rows, a column and
\* a text with an unknown kind
CliMenu ==
    { <<"/", ":">> \o S_table \o <<":", "t">>,                \* /:table:t
      <<"/", "*", ":">> \o S_table \o <<":", "t">>,           \* /*:table:t
      <<"/", "*", ":">> \o S_table \o <<":", "k">>,           \* /*:table:k
      <<"/", ":">> \o S_row,                                  \* /:row
      <<"/", "*", ":">> \o S_row,                             \* /*:row
      <<"/", ":">> \o S_column,                               \* /:column
      <<"/", ":", "a">> }                                     \* /:a

CliSpecLists ==
    {l \in SeqsUpTo(CliMenu, MaxSpecs) :
        \A i, j \in 1..Len(l) : i # j => l[i] # l[j]}

\* the --table option: absent, or the name one of the tables has
CliTableNames == {None, Some(<<"t">>)}

RECURSIVE IsArrayDoc(_)
IsArrayDoc(d) ==
    /\ d.t # "o"
    /\ \A i \in 1..Len(d.ch) : IsArrayDoc(d.ch[i])

\* the documents of --file: arrays and scalars
CliDocs == {d \in RawDocs : IsArrayDoc(d)}

\* the command line is given
InitCli ==
    /\ spec = <<>>
    /\ parsed = None
    /\ path_specs \in CliSpecLists
    /\ handlers = <<>>
    /\ table_name \in CliTableNames
    /\ rawdoc = None
    /\ phase = NewConverter.phase
    /\ stack = NewConverter.stack
    /\ tables = NewConverter.tables
    /\ err = NewConverter.err
    /\ log = NewConverter.log
    /\ no_prefix \in BOOLEAN
    /\ cli = "options"
    /\ outcome = None
    /\ store = None
    /\ files = <<>>
    /\ calls = 0

\* _parse_paths, the callback of --path: build_handlers, a PathSpecError
\* turned into click.BadParameter
ParsePaths ==
    /\ cli = "options"
    /\ LET r == build_handlers(path_specs) IN
       IF r = None
       THEN /\ cli' = "exited"
            /\ outcome' = Some(BadParameter("PathSpecError"))
            /\ handlers' = handlers
       ELSE /\ cli' = "main"
            /\ outcome' = outcome
            /\ handlers' = r[1]
    /\ UNCHANGED <<spec, parsed, path_specs, table_name, rawdoc, phase, stack,
                   tables, err, log, no_prefix, store, files, calls>>

\* main: if no_prefix: _check_no_prefix_collisions(...)
CheckNoPrefix ==
    /\ cli = "main"
    /\ LET e == IF no_prefix
                THEN _check_no_prefix_collisions(handlers, table_name)
                ELSE None
       IN IF e = None
          THEN cli' = "convert" /\ outcome' = outcome
          ELSE cli' = "exited" /\ outcome' = e
    /\ UNCHANGED <<spec, parsed, path_specs, handlers, table_name, rawdoc,
                   phase, stack, tables, err, log, no_prefix, store, files,
                   calls>>

\* a faulty try statement of main: a ConvertError swallowed, the store of
\* the failed Converter written
try_convert_partial(m) ==
    IF m.phase = "returned" \/ m.err[1].kind = "ConvertError"
    THEN [store |-> Some(m.tables), cli |-> "write", outcome |-> None]
    ELSE [store |-> None, cli |-> "exited",
          outcome |-> Some(Uncaught(m.err[1].kind))]

\* the try statement of main, m the conversion at its end: the store
\* json_to_multicsv returns is bound to tables, a ConvertError is turned
\* into click.BadParameter, any other exception leaves main
try_convert(m) ==
    IF m.phase = "returned"
    THEN [store |-> Some(m.tables), cli |-> "write", outcome |-> None]
    ELSE [store |-> None, cli |-> "exited",
          outcome |-> IF m.err[1].kind = "ConvertError"
                      THEN Some(BadParameter("ConvertError"))
                      ELSE Some(Uncaught(m.err[1].kind))]

\* main: tables = json_to_multicsv(input_file, handlers, table_name)
CliConvert ==
    /\ cli = "convert"
    /\ \E raw \in CliDocs :
          LET m == RunWalk(handlers, convert(NewConverter, table_name, raw))
          IN /\ rawdoc' = Some(raw)
             /\ Update(m)
             /\ store' = try_convert(m).store
             /\ cli' = try_convert(m).cli
             /\ outcome' = try_convert(m).outcome
    /\ calls' = calls + 1
    /\ UNCHANGED <<spec, parsed, path_specs, handlers, table_name, no_prefix,
                   files>>

\* main: one iteration of the loop over tables.items(): the file of the
\* next table is opened for writing and written
WriteFile ==
    /\ cli = "write"
    /\ Len(files) < Len(store[1])
    /\ LET t == store[1][Len(files) + 1]
           name == filename(t.parts, no_prefix)
           fields == fieldnames(t.rows)
       IN IF name = None
          THEN /\ cli' = "exited"
               /\ outcome' = Some(Uncaught("IndexError"))
               /\ files' = files
          ELSE /\ cli' = cli
               /\ outcome' = outcome
               /\ files' = Append(files,
                                  [name |-> name[1], table |-> t.parts,
                                   fieldnames |-> fields,
                                   rows |-> written_rows(fields, t.rows)])
    /\ UNCHANGED <<spec, parsed, path_specs, handlers, table_name, rawdoc,
                   phase, stack, tables, err, log, no_prefix, store, calls>>

\* main returns after the last table
CliReturn ==
    /\ cli = "write"
    /\ Len(files) = Len(store[1])
    /\ cli' = "exited"
    /\ outcome' = Some(Exit0)
    /\ UNCHANGED <<spec, parsed, path_specs, handlers, table_name, rawdoc,
                   phase, stack, tables, err, log, no_prefix, store, files,
                   calls>>

NextCli ==
    \/ ParsePaths
    \/ CheckNoPrefix
    \/ CliConvert
    \/ WriteFile
    \/ CliReturn

SpecCli == InitCli /\ [][NextCli]_vars

---------------------------------------------------------------------------
(* converter.py used as a library: conversions made one after the other,   *)
(* by json_to_multicsv, which constructs a Converter for each call, and by *)
(* convert on one Converter instance, whose state is phase, stack, tables, *)
(* err and log.  cli is the function called last and store what it         *)
(* returned (None when it raised).                                         *)

\* the handler lists build_handlers returns
CallSpecLists == {l \in CliSpecLists : build_handlers(l) # None}

\* what a call that ended in m returns: self.tables, or nothing on a raise
returned_store(m) == IF m.phase = "returned" THEN Some(m.tables) ELSE None

InitCalls ==
    /\ spec = <<>>
    /\ parsed = None
    /\ path_specs \in CallSpecLists
    /\ handlers = build_handlers(path_specs)[1]
    /\ table_name \in CliTableNames
    /\ rawdoc = None
    /\ phase = NewConverter.phase
    /\ stack = NewConverter.stack
    /\ tables = NewConverter.tables
    /\ err = NewConverter.err
    /\ log = NewConverter.log
    /\ no_prefix = FALSE
    /\ cli = "idle"
    /\ outcome = None
    /\ store = None
    /\ files = <<>>
    /\ calls = 0

\* json_to_multicsv(fileobj, handlers, table_name): a Converter of its own
CallJsonToMulticsv ==
    /\ calls < MaxCalls
    /\ \E raw \in CliDocs :
          LET m == RunWalk(handlers, convert(NewConverter, table_name, raw))
          IN /\ rawdoc' = Some(raw)
             /\ store' = returned_store(m)
    /\ cli' = "json_to_multicsv"
    /\ calls' = calls + 1
    /\ UNCHANGED <<spec, parsed, path_specs, handlers, table_name, phase,
                   stack, tables, err, log, no_prefix, outcome, files>>

\* convert(fileobj) on the Converter instance, with the self.tables it has
CallConvert ==
    /\ calls < MaxCalls
    /\ \E raw \in CliDocs :
          LET m == RunWalk(handlers, convert(M, table_name, raw))
          IN /\ rawdoc' = Some(raw)
             /\ Update(m)
             /\ store' = returned_store(m)
    /\ cli' = "convert"
    /\ calls' = calls + 1
    /\ UNCHANGED <<spec, parsed, path_specs, handlers, table_name,
                   no_prefix, outcome, files>>

NextCalls ==
    \/ CallJsonToMulticsv
    \/ CallConvert

SpecCalls == InitCalls /\ [][NextCalls]_vars

---------------------------------------------------------------------------
(* Properties *)

\* the decoded document of the conversion
Data == Decode(rawdoc[1])

Prefix(path, k) == SubSeq(path, 1, k)

\* the node of document d at path
RECURSIVE NodeAt(_, _)
NodeAt(d, path) ==
    IF path = <<>> THEN d
    ELSE NodeAt(GetKey(Children(d), path[1]), Tail(path))

\* text.split(sep)
RECURSIVE SplitOn(_, _)
SplitOn(text, sep) ==
    IF \A i \in 1..Len(text) : text[i] # sep THEN <<text>>
    ELSE LET i == CHOOSE j \in 1..Len(text) :
                    text[j] = sep /\ \A k \in 1..(j - 1) : text[k] # sep
         IN <<SubSeq(text, 1, i - 1)>>
            \o SplitOn(SubSeq(text, i + 1, Len(text)), sep)

\* the segments of a rendered path "/a/b" ("/" has none)
PathSegments(text) ==
    IF text = <<"/">> THEN <<>> ELSE SplitOn(Tail(text), "/")

Raised(kind) == phase = "raised" /\ err[1].kind = kind

RowEvents == {e \in log : e.op = "row" /\ e.by = "table"}

\* the table handler that created the row of e, the identity of its table and
\* the key column it added
FiredOn(e) == _find_handler(handlers, Prefix(e.path, Len(e.path) - 1))[1]
PartsOf(e) == tables[e.ref[1][1]].parts
KeyColumnOf(e) == e.keys[Len(e.keys)][1]

(* C1: convert either returns the table store or raises ConvertError, for  *)
(* every document and handler list, a scalar root and a scalar below a     *)
(* root column handler included.                                           *)
C1_ReturnsOrConvertError == phase = "raised" => err[1].kind = "ConvertError"

(* C2: no field of a row is ever overwritten: every value stored goes to a *)
(* field the row did not have, also the scalar child of a table handler    *)
(* stored under handler.name.                                              *)
C2_NoFieldOverwritten == \A e \in log : e.op = "store" => ~e.overwrote

(* C3: a row appended by a table handler has one key column per table      *)
(* boundary crossed on the way to it, and every ancestor's key value is    *)
(* still in the row.                                                       *)
C3_OneKeyColumnPerBoundary ==
    \A e \in RowEvents :
        LET r == RowAt(tables, e.ref[1]) IN
        /\ Len(dict(e.keys)) = Len(e.keys)
        /\ \A i \in 1..Len(e.keys) :
              /\ HasKey(r, e.keys[i][1])
              /\ GetKey(r, e.keys[i][1]) = e.keys[i][2]

(* C4 as stated: without key_name the key column is the whole child table  *)
(* identity joined by dots plus "._key", with or without a top-level table *)
(* name; with key_name it is key_name.                                     *)
C4_KeyNameIsChildIdentity ==
    \A e \in RowEvents :
        KeyColumnOf(e) =
            IF FiredOn(e).key_name = None
            THEN Join(<<".">>, PartsOf(e)) \o S_key
            ELSE FiredOn(e).key_name[1]

(* C4 amended: without key_name the key column is the dot-join of the      *)
(* first n components of the child table identity plus "._key", n the      *)
(* number of table boundaries crossed: the whole identity when no          *)
(* top-level table name is given, the identity without its last component  *)
(* (handler.name) when one is; with key_name it is key_name.               *)
C4_KeyNameIsIdentityPrefix ==
    \A e \in RowEvents :
        /\ KeyColumnOf(e) =
              IF FiredOn(e).key_name = None
              THEN Join(<<".">>, Prefix(PartsOf(e), Len(e.keys))) \o S_key
              ELSE FiredOn(e).key_name[1]
        /\ Len(e.keys) = Len(PartsOf(e)) - Len(initial_table_parts(table_name))

C4_Witness ==
    \E e \in RowEvents :
        /\ FiredOn(e).key_name = None
        /\ table_name # None
        /\ Len(e.keys) = 2
        /\ \E d \in RowEvents : FiredOn(d).key_name # None

(* C5 as stated: a ConvertError is a no-handler error at a non-scalar node *)
(* no handler matches, or a column collision; a non-scalar node matched by *)
(* a handler, a fallback column handler included, never gives a no-handler *)
(* error.                                                                  *)
C5_NoHandlerOnlyIfNoneMatches ==
    Raised("ConvertError") =>
        \/ /\ err[1].cause = "no handler"
           /\ IsContainer(NodeAt(Data, err[1].at))
           /\ _find_handler(handlers, err[1].at) = None
        \/ err[1].cause = "collision"

\* the node at path, routed to handler h, makes _walk raise the no-handler
\* error: a container without handler, or an array whose handler is a
\* fallback column handler
NoHandlerCase(n, h) ==
    /\ IsContainer(n)
    /\ \/ h = None
       \/ n.t = "a" /\ h[1].kind = S_column /\ h[1].fallback

(* C5 amended: a ConvertError is a no-handler error at a non-scalar node   *)
(* that no handler matches or that is an array matched only by a fallback  *)
(* column handler, or a column collision at a scalar whose field is in its *)
(* row; and a walk that returns has visited no such node and stored no     *)
(* scalar over a field.                                                    *)
C5_TwoErrorConditions ==
    /\ Raised("ConvertError") =>
          LET n == NodeAt(Data, err[1].at)
              h == _find_handler(handlers, err[1].at)
          IN \/ err[1].cause = "no handler" /\ NoHandlerCase(n, h)
             \/ /\ err[1].cause = "collision"
                /\ ~IsContainer(n)
                /\ (h = None \/ h[1].kind # S_ignore)
                /\ HasKey(RowAt(tables, err[1].row[1]), err[1].field[1])
    /\ phase = "returned" =>
          \A e \in log :
             /\ e.op = "visit" =>
                   LET n == NodeAt(Data, e.path)
                       h == _find_handler(handlers, e.path)
                   IN (h # None /\ h[1].kind = S_ignore)
                      \/ ~NoHandlerCase(n, h)
             /\ (e.op = "store" /\ e.by = "walk") => ~e.overwrote

C5_Witness ==
    /\ Raised("ConvertError")
    /\ err[1].cause = "no handler"
    /\ NodeAt(Data, err[1].at).t = "a"
    /\ _find_handler(handlers, err[1].at) # None
    /\ err[1].at # <<>>

\* position j of the failing path is an array index introduced by a table
\* handler that fired above it
TableArrayIndex(path, j) ==
    LET h == _find_handler(handlers, Prefix(path, j - 1)) IN
    /\ NodeAt(Data, Prefix(path, j - 1)).t = "a"
    /\ h # None
    /\ h[1].kind = S_table

NoHandlerRaised == Raised("ConvertError") /\ err[1].cause = "no handler"

(* C6 as stated: the suggested path of a no-handler error is as long as    *)
(* the failing path and has "*" exactly at the array indices introduced by *)
(* a table handler that fired above; every other position is literal.      *)
C6_StarAtTableArrayIndices ==
    NoHandlerRaised =>
        LET path == err[1].at
            segs == PathSegments(err[1].path)
        IN /\ Len(segs) = Len(path)
           /\ \A j \in 1..Len(path) :
                 segs[j] = IF TableArrayIndex(path, j) THEN <<"*">>
                           ELSE path[j]

\* some table handler of the list that is no fallback matches the path above
\* position j, whose segment is all digits
DigitsBelowTableSpec(path, j) ==
    /\ isdigit(path[j])
    /\ \E i \in 1..Len(handlers) :
          /\ handlers[i].kind = S_table
          /\ ~handlers[i].fallback
          /\ matches(handlers[i], Prefix(path, j - 1))

(* C6 amended: the suggested path is as long as the failing path and has   *)
(* "*" exactly at the positions whose segment consists only of digits and  *)
(* whose parent path is matched by some non-fallback table handler of the  *)
(* list (an object key made of digits included, whether or not that        *)
(* handler is the one that fired); every other position is literal.        *)
C6_StarAtDigitsBelowTableSpec ==
    NoHandlerRaised =>
        LET path == err[1].at
            segs == PathSegments(err[1].path)
        IN /\ Len(segs) = Len(path)
           /\ \A j \in 1..Len(path) :
                 segs[j] = IF DigitsBelowTableSpec(path, j) THEN <<"*">>
                           ELSE path[j]

C6_Witness ==
    /\ NoHandlerRaised
    /\ Len(err[1].at) = 2
    /\ TableArrayIndex(err[1].at, 1)
    /\ PathSegments(err[1].path) = <<<<"*">>, err[1].at[2]>>

(* C7: a node whose path resolves to an ignore handler is dropped with its *)
(* subtree: it gets no row, no value of it or of a descendant is stored,   *)
(* and no descendant is visited, whatever handler routed its parent.       *)
C7_IgnoredSubtreeDropped ==
    \A e \in log :
        \A k \in 0..Len(e.path) :
            LET h == _find_handler(handlers, Prefix(e.path, k)) IN
            (h # None /\ h[1].kind = S_ignore) =>
                (e.op = "visit" /\ Len(e.path) = k)

(* C8: parse_path_spec is total: it returns a Handler whose kind is one of *)
(* table, column, row, ignore, with a name exactly when the kind is table, *)
(* a key_name only when it is table and fallback false, or it raises       *)
(* PathSpecError; the lexer position ends inside 0..len(spec).             *)
C8_ParseTotal ==
    parsed # None =>
        LET r == parsed[1] IN
        /\ r.pos \in 0..Len(spec)
        /\ \/ r.status = "PathSpecError" /\ r.handler = None
           \/ /\ r.status = "ok"
              /\ r.handler # None
              /\ LET h == r.handler[1] IN
                 /\ h.kind \in {<<"t", "a", "b", "l", "e">>,
                                <<"c", "o", "l", "u", "m", "n">>,
                                <<"r", "o", "w">>,
                                <<"i", "g", "n", "o", "r", "e">>}
                 /\ (h.name # None) <=> (h.kind = <<"t", "a", "b", "l", "e">>)
                 /\ (h.key_name # None) => (h.kind = <<"t", "a", "b", "l", "e">>)
                 /\ h.fallback = FALSE

C8_Witness ==
    /\ parsed # None
    /\ parsed[1].status = "ok"
    /\ parsed[1].handler[1].key_name # None
    /\ parsed[1].handler[1].components # <<>>
    /\ parsed[1].pos = Len(spec)

\* a non-empty run of characters other than "/" and ":"
IsText(t) == t # <<>> /\ \A i \in 1..Len(t) : t[i] \notin {"/", ":"}

\* the fields of s between its colons: the path, the kind, the arguments
Fields(s) == SplitOn(s, ":")

\* the segments of the path field ("/" has none)
GrammarSegments(s) == PathSegments(Fields(s)[1])

\* s is '/' [segment ('/' segment)*] ':' ( 'table' ':' name [':' key_name]
\*                                        | 'column' | 'row' | 'ignore' )
InGrammar(s) ==
    LET f == Fields(s) IN
    /\ Len(f) >= 2
    /\ f[1] # <<>>
    /\ f[1][1] = "/"
    /\ \A i \in 1..Len(GrammarSegments(s)) : IsText(GrammarSegments(s)[i])
    /\ \/ /\ f[2] = <<"t", "a", "b", "l", "e">>
          /\ Len(f) \in {3, 4}
          /\ \A i \in 3..Len(f) : IsText(f[i])
       \/ /\ f[2] \in {<<"c", "o", "l", "u", "m", "n">>, <<"r", "o", "w">>,
                       <<"i", "g", "n", "o", "r", "e">>}
          /\ Len(f) = 2

\* the Handler the grammar gives an accepted text
GrammarHandler(s) ==
    LET f == Fields(s) IN
    [kind |-> f[2], components |-> GrammarSegments(s),
     name |-> IF Len(f) >= 3 THEN Some(f[3]) ELSE None,
     key_name |-> IF Len(f) >= 4 THEN Some(f[4]) ELSE None,
     fallback |-> FALSE]

(* C9: parse_path_spec accepts exactly the texts of the grammar            *)
(* '/' [segment ('/' segment)*] ':' ('table' ':' name [':' key_name] |     *)
(* 'column' | 'row' | 'ignore') and returns their segments, name and       *)
(* key_name; every other text raises PathSpecError.                        *)
C9_AcceptsExactlyGrammar ==
    parsed # None =>
        /\ (parsed[1].status = "ok") <=> InGrammar(spec)
        /\ parsed[1].status = "ok" =>
              parsed[1].handler[1] = GrammarHandler(spec)

C9_Witness ==
    /\ parsed # None
    /\ parsed[1].status = "ok"
    /\ Len(parsed[1].handler[1].components) = 2
    /\ parsed[1].handler[1].components[2] = <<"*">>

\* the sequences that take their i-th element from sets[i]
RECURSIVE Choices(_)
Choices(sets) ==
    IF sets = <<>> THEN {<<>>}
    ELSE {<<x>> \o rest : x \in sets[1], rest \in Choices(Tail(sets))}

\* the documents equal to d up to the order of the keys of their objects
RECURSIVE Reorderings(_)
Reorderings(d) ==
    IF d.t = "s" THEN {d}
    ELSE IF d.t = "a"
    THEN {Array(c) : c \in Choices([i \in 1..Len(d.ch) |->
                                      Reorderings(d.ch[i])])}
    ELSE {Object([i \in 1..Len(d.ch) |-> <<d.ch[p[i]][1], c[p[i]]>>]) :
             p \in Permutations(1..Len(d.ch)),
             c \in Choices([i \in 1..Len(d.ch) |->
                              Reorderings(d.ch[i][2])])}

(* C10: the outcome of a conversion does not depend on the order of the    *)
(* keys in the objects of the document: every document equal to it up to   *)
(* key order gives the same tables, rows and fields in the same order.     *)
C10_KeyOrderIndependent ==
    phase \in {"returned", "raised"} =>
        \A d \in Reorderings(rawdoc[1]) :
            LET m == RunWalk(handlers,
                             convert(NewConverter, table_name, d))
            IN m.phase = phase /\ m.tables = tables /\ m.err = err

\* a returned conversion of an object written with its keys out of order,
\* whose two children landed in the store
C10_Witness ==
    /\ phase = "returned"
    /\ rawdoc[1].t = "o"
    /\ Len(rawdoc[1].ch) = 2
    /\ StrLess(rawdoc[1].ch[2][1], rawdoc[1].ch[1][1])
    /\ Cardinality({e \in log : e.op = "store"}) = 2

\* the event of the row that the store event e wrote to
RowEventOf(e) == CHOOSE r \in log : r.op = "row" /\ r.ref = e.ref

\* every scalar stored by a visit has as field the dot-join of the path
\* segments below the node that created its row
FieldIsPathBelowRow ==
    \A e \in log :
        (e.op = "store" /\ e.by = "walk") =>
            /\ \E r \in log : r.op = "row" /\ r.ref = e.ref
            /\ LET p == RowEventOf(e).path IN
               /\ Len(p) < Len(e.path)
               /\ Prefix(e.path, Len(p)) = p
               /\ e.field =
                     Some(Join(<<".">>,
                               SubSeq(e.path, Len(p) + 1, Len(e.path))))

(* C11: a scalar stored by visiting it gets as field the dot-join of the   *)
(* path segments below the node that created its row (the table child or   *)
(* the row-handler node), with no table name in front; and a column        *)
(* handler firing, explicit or fallback, appends no row and adds no table. *)
C11_ColumnFlattening ==
    [][/\ FieldIsPathBelowRow'
       /\ (WalkColumn \/ ColumnChild) => tables' = tables]_vars

\* a scalar two levels below a row-handler node, stored under "x.y" in the
\* row of a table with a name of its own
C11_Witness ==
    \E e \in log :
        /\ e.op = "store" /\ e.by = "walk"
        /\ Len(e.path) = Len(RowEventOf(e).path) + 2
        /\ RowEventOf(e).by = "row"
        /\ tables[e.ref[1][1]].parts # <<>>
        /\ HasKey(RowAt(tables, e.ref[1]), e.field[1])

\* the last component of the table identities of a store
LastComponents(tbls) ==
    [i \in 1..Len(tbls) |->
        IF tbls[i].parts = <<>> THEN None
        ELSE Some(tbls[i].parts[Len(tbls[i].parts)])]

(* C12: with --no-prefix no two table identities are written to one file:  *)
(* a run that is not rejected has a store whose identities all have a      *)
(* non-empty last component, different from table to table, no file is     *)
(* opened twice, and the "duplicate table name" rejection comes before the *)
(* conversion.                                                             *)
C12_NoPrefixNamesUnique ==
    no_prefix =>
        /\ store # None =>
              LET last == LastComponents(store[1]) IN
              \A i \in 1..Len(last) :
                 /\ last[i] # None
                 /\ \A j \in 1..Len(last) : i # j => last[i] # last[j]
        /\ \A i, j \in 1..Len(files) :
              i # j => files[i].name # files[j].name
        /\ (outcome # None /\ outcome[1].cause = "duplicate table name") =>
              phase = "new" /\ store = None /\ files = <<>>

(* C13: a failed run produces no output: when a path specification raises  *)
(* PathSpecError or the conversion raises ConvertError (also after rows    *)
(* were appended to the store) the command ends with that error, main got  *)
(* no table store, and no file is written; a file is written only after    *)
(* the conversion has returned.                                            *)
C13_FailedRunWritesNothing ==
    /\ (cli # "options" /\ build_handlers(path_specs) = None) =>
          /\ cli = "exited"
          /\ outcome = Some(BadParameter("PathSpecError"))
          /\ phase = "new" /\ store = None /\ files = <<>>
    /\ phase = "raised" =>
          /\ cli = "exited"
          /\ outcome # None /\ outcome[1].kind # "ok"
          /\ err[1].kind = "ConvertError" =>
                outcome = Some(BadParameter("ConvertError"))
          /\ store = None /\ files = <<>>
    /\ files # <<>> => phase = "returned" /\ store = Some(tables)

\* a ConvertError after a row was appended to the store
C13_Witness ==
    /\ cli = "exited"
    /\ Raised("ConvertError")
    /\ tables # <<>>
    /\ files = <<>>

\* handler h matches the path: as many components as segments, each "*" or
\* equal to its segment
MatchesPath(h, path) ==
    /\ Len(h.components) = Len(path)
    /\ \A i \in 1..Len(path) :
          h.components[i] \in {<<"*">>, path[i]}

\* the positions of the handlers of hs that match the path, by fallback flag
Matching(hs, path, fb) ==
    {i \in 1..Len(hs) : hs[i].fallback = fb /\ MatchesPath(hs[i], path)}

\* the path _walk is about to look up: that of the call on top of the stack
LookedUp == Top(M).path

(* C14: _find_handler returns the first handler in registration order that *)
(* is no fallback and matches the path; a fallback handler that matches    *)
(* only when no other handler of the list matches, wherever it is          *)
(* registered; and no handler exactly when nothing matches.                *)
C14_FirstNonFallbackMatch ==
    phase = "walking" =>
        LET found == _find_handler(handlers, LookedUp)
            explicit == Matching(handlers, LookedUp, FALSE)
            fallbacks == Matching(handlers, LookedUp, TRUE)
        IN /\ explicit # {} =>
                 found = Some(handlers[CHOOSE i \in explicit :
                                          \A j \in explicit : i <= j])
           /\ (explicit = {} /\ fallbacks # {}) =>
                 /\ found # None
                 /\ \E i \in fallbacks : found[1] = handlers[i]
           /\ (found = None) <=> (explicit \cup fallbacks = {})

\* a path matched by a fallback handler and by a handler registered after
\* it that is no fallback, which is the one found
C14_Witness ==
    /\ phase = "walking"
    /\ \E i \in Matching(handlers, LookedUp, TRUE) :
          \E j \in Matching(handlers, LookedUp, FALSE) :
             /\ i < j
             /\ _find_handler(handlers, LookedUp) = Some(handlers[j])
             /\ handlers[j] # handlers[i]

\* the references <<table, row>> of the rows of a store
Refs(tbls) ==
    UNION {{<<i, j>> : j \in 1..Len(tbls[i].rows)} : i \in 1..Len(tbls)}

\* every table of old is at its place in new, and so is every row of it, with
\* the fields it had (a row may have got more fields)
Kept(old, new) ==
    /\ Len(old) <= Len(new)
    /\ \A i \in 1..Len(old) :
          /\ new[i].parts = old[i].parts
          /\ Len(old[i].rows) <= Len(new[i].rows)
          /\ \A j \in 1..Len(old[i].rows) :
                /\ Len(old[i].rows[j]) <= Len(new[i].rows[j])
                /\ SubSeq(new[i].rows[j], 1, Len(old[i].rows[j]))
                      = old[i].rows[j]

\* new is old with exactly one more row, the last row of table parts
AppendedTo(old, new, parts) ==
    LET ti == TableIndex(new, parts) IN
    /\ ti # 0
    /\ <<ti, Len(new[ti].rows)>> \notin Refs(old)
    /\ Refs(new) = Refs(old) \cup {<<ti, Len(new[ti].rows)>>}

\* the rows a table handler appended for child i of the container of frame f
MadeFor(f, i) ==
    {e \in RowEvents : e.path = Append(f.path, f.children[i][1])}

\* a table loop that has come to child f.i has appended one row for each
\* child before it and none for the others, to the table named after the
\* handler, each row after the row of the child before
TableLoop(f) ==
    LET child_parts == Append(f.table_parts, f.handler[1].name[1]) IN
    \A i \in 1..Len(f.children) :
       IF i < f.i
       THEN /\ Cardinality(MadeFor(f, i)) = 1
            /\ \A e \in MadeFor(f, i) :
                  /\ e.ref[1] \in Refs(tables)
                  /\ PartsOf(e) = child_parts
                  /\ i > 1 => \A d \in MadeFor(f, i - 1) :
                                 d.ref[1][2] < e.ref[1][2]
       ELSE MadeFor(f, i) = {}

TableLoops ==
    \A n \in 1..Len(stack) : stack[n].pc = "table" => TableLoop(stack[n])

(* C15: the table store only grows during a walk: no step removes or       *)
(* reorders a table or a row of the store; a step of a table handler       *)
(* appends exactly one row, for the next child, to the table               *)
(* table_parts + (handler.name,), so that a loop over k children has       *)
(* appended exactly k rows in child order when it ends; a row handler      *)
(* appends exactly one row to the current table; and no other step of the  *)
(* walk adds a row or a table.                                             *)
C15_StoreOnlyGrows ==
    [][/\ phase = "walking" => Kept(tables, tables')
       /\ TableChild =>
             AppendedTo(tables, tables',
                        Append(Top(M).table_parts, Top(M).handler[1].name[1]))
       /\ WalkRow => AppendedTo(tables, tables', Top(M).table_parts)
       /\ (phase = "walking" /\ ~TableChild /\ ~WalkRow) =>
             Refs(tables') = Refs(tables) /\ Len(tables') = Len(tables)
       /\ TableLoops']_vars

\* a table loop over two children has ended, with both rows in its table
C15_Witness ==
    /\ phase = "walking"
    /\ Top(M).pc = "table"
    /\ Len(Top(M).children) >= 2
    /\ Top(M).i = Len(Top(M).children) + 1
    /\ LET ti == TableIndex(tables, Append(Top(M).table_parts,
                                           Top(M).handler[1].name[1]))
       IN ti # 0 /\ Len(tables[ti].rows) >= 2

\* the rows of table parts in a store
RowsOf(tbls, parts) ==
    IF TableIndex(tbls, parts) = 0 THEN <<>>
    ELSE tbls[TableIndex(tbls, parts)].rows

\* the store a Converter that never converted makes of the document
OwnStore == RunWalk(handlers, convert(NewConverter, table_name, rawdoc[1])).tables

(* C16: the store a conversion returns holds only rows of the document of  *)
(* that call, after any sequence of calls of json_to_multicsv and of       *)
(* convert on one Converter instance: every table of it is a table the     *)
(* document gives, with the rows the document gives.                       *)
C16_StoreOfThisCallOnly ==
    store # None =>
        \A i \in 1..Len(store[1]) :
           store[1][i].rows = RowsOf(OwnStore, store[1][i].parts)

====
